---- MODULE Spec2Model ----
(***************************************************************************)
(* Model of src/main.py (ROQET API): the three static content handlers,    *)
(* the two greetings and the database connectivity probe test_database.    *)
(*                                                                         *)
(* Python values are modelled as follows.                                  *)
(*   - a str that the program only compares or copies is a TLA+ string;    *)
(*     the emoji of the status literals are left out of the text;          *)
(*   - a str that the program slices (an exception message) is a sequence  *)
(*     of one-character strings, and an f-string is the literal chunk      *)
(*     followed by the characters that are interpolated;                   *)
(*   - a list is a sequence, a dict or a pydantic model is a record;       *)
(*   - None is PyNone;                                                     *)
(*   - the exceptions the collaborators raise derive from Exception.       *)
(***************************************************************************)
EXTENDS Naturals, Sequences, FiniteSets

VARIABLES
    environ,   \* os.environ of the running process: DATABASE_URL, DATABASE_NAME
    handler,   \* the route handler that served the last request
    response,  \* what that handler returned (or the exception it let through)
    probe,     \* how the database collaborator behaved during that request
    local,     \* test_database's dict `response` when the try statement ends
    invoked,   \* the collaborator operations that request invoked, in order
    audit      \* observer: first result of each content handler and of /test

vars == <<environ, handler, response, probe, local, invoked, audit>>

----------------------------------------------------------------------------
(* Bounds of the model *)

MaxMsgLen == 52     \* longest exception message tried
MaxColls  == 12     \* most collections a database handle lists

(* Program constants *)

ErrorChars  == 50   \* str(e)[:50]
ListedColls == 10   \* collections[:10]

----------------------------------------------------------------------------
(* Python values *)

PyNone == "None"

\* s[:n] for n >= 0
SliceTo(s, n) == SubSeq(s, 1, IF Len(s) < n THEN Len(s) ELSE n)

\* truth value of a str-or-None, as `if os.getenv(...)` tests it
Truthy(v) == v # PyNone /\ v # ""

\* the exception classes that occur, and `except ImportError`
ExcTypes == {"ImportError", "ModuleNotFoundError", "RuntimeError"}
IsImportError(t) == t \in {"ImportError", "ModuleNotFoundError"}
IsException(t) == t \in ExcTypes

Chars == <<"a", "b", "c">>
\* a message of n characters whose i-th character depends on i
Msg(n) == [i \in 1..n |-> Chars[(i % 3) + 1]]
MsgLens == {0, 1} \cup {n \in 0..MaxMsgLen : n + 2 >= ErrorChars}
Msgs == {Msg(n) : n \in MsgLens}

\* collection names are numbered; a listing is ascending or descending
Ascending(n) == [i \in 1..n |-> i]
Descending(n) == [i \in 1..n |-> n + 1 - i]
Listings == {Ascending(n) : n \in 0..MaxColls} \cup {Descending(n) : n \in 0..MaxColls}

----------------------------------------------------------------------------
(* The environment *)

EnvNames == {"DATABASE_URL", "DATABASE_NAME"}
EnvValues == {"", "mongodb://localhost:27017"}

\* each variable is absent (None), present and empty, or present with a value
Environments == [EnvNames -> {PyNone} \cup EnvValues]

\* os.getenv(name): the value, or None when the variable is absent
getenv(env, name) == env[name]

----------------------------------------------------------------------------
(* Models: the pydantic classes, with their defaults *)

NewsItem(id, title, summary, timeframe, tags, source) ==
    [id |-> id, title |-> title, summary |-> summary, timeframe |-> timeframe,
     tags |-> tags, source |-> source]

ToolItem(id, name, purpose, when_to_use, best_practices, level) ==
    [id |-> id, name |-> name, purpose |-> purpose, when_to_use |-> when_to_use,
     best_practices |-> best_practices, level |-> level]

CourseLesson(id, title, objectives, level) ==
    [id |-> id, title |-> title, objectives |-> objectives, level |-> level]

CourseStage(key, title, description, lessons) ==
    [key |-> key, title |-> title, description |-> description, lessons |-> lessons]

----------------------------------------------------------------------------
(* Root & health *)

read_root == [message |-> "Hello from FastAPI Backend!"]

hello == [message |-> "Hello from the backend API!"]

----------------------------------------------------------------------------
(* Sample data endpoints *)

NewsItems ==
    << NewsItem("n1",
                "CPI prints inline; initial risk-on reaction fades",
                "Inflation meets expectations. Short-term relief rally, but trend depends on upcoming labor data.",
                "short", <<"macro", "inflation", "usd">>, "ROQET Brief"),
       NewsItem("n2",
                "Central bank signals higher-for-longer stance",
                "Policy path suggests slower cuts. Watch yield curve and credit conditions over the next quarter.",
                "long", <<"rates", "bonds">>, "ROQET Macro"),
       NewsItem("n3",
                "Earnings season: dispersion favors stock-pickers",
                "Mixed beats and margin pressures. Focus on relative strength and post-earnings drift.",
                "short", <<"equities", "earnings">>, "ROQET Desk") >>

\* variant: every item is filed under the short horizon
get_news_all_short == [i \in 1..Len(NewsItems) |-> [NewsItems[i] EXCEPT !.timeframe = "short"]]

get_news == NewsItems

get_tools ==
    << ToolItem("position-sizer", "Position Sizer",
                "Calculate position size based on account risk and stop distance.",
                "Before placing any trade.",
                << "Risk a fixed % per trade (e.g., 0.5%-1.0%).",
                   "Recompute after equity changes.",
                   "Use worst-case spread/slippage in stop distance." >>,
                "Pre-Launch"),
       ToolItem("trade-journal", "Trade Journal",
                "Log setups, context, execution, and outcomes to measure edge.",
                "Immediately after each trade.",
                << "Tag by setup and market regime.",
                   "Record reasons for exit, not just P/L.",
                   "Review weekly for patterns and mistakes." >>,
                "Ascent"),
       ToolItem("regime-scanner", "Regime Scanner",
                "Gauge trend/chop/volatility regime before selecting tactics.",
                "Daily pre-market and before new positions.",
                << "Match strategy to regime (don't force trades).",
                   "Recheck on major news days.",
                   "Stand down in unclear signals." >>,
                "Mission Control") >>

CourseStages ==
    << CourseStage("launchpad", "Launchpad",
                   "Core concepts, platforms, and execution basics.",
                   << CourseLesson("L1", "Market Basics: How Prices Move",
                                   <<"Bid/ask, spread", "Order types: market/limit/stop">>, "Launchpad"),
                      CourseLesson("L2", "Platforms & Orders",
                                   <<"Placing orders correctly", "Fees and slippage">>, "Launchpad") >>),
       CourseStage("prelaunch", "Pre-Launch Checks",
                   "Risk, psychology, and planning.",
                   << CourseLesson("P1", "Risk per Trade",
                                   <<"Fixed % risk", "Stop placement">>, "Pre-Launch"),
                      CourseLesson("P2", "Flight Plan: Trade Plan",
                                   <<"Criteria, invalidation", "Scenarios">>, "Pre-Launch") >>),
       CourseStage("ignition", "Ignition",
                   "Starter strategies and first live trades.",
                   << CourseLesson("I1", "Breakout + Retest",
                                   <<"Context filter", "Execution checklist">>, "Ignition"),
                      CourseLesson("I2", "Mean Reversion in Range",
                                   <<"Identify range", "Risk control">>, "Ignition") >>),
       CourseStage("ascent", "Ascent",
                   "System-building and backtesting.",
                   << CourseLesson("A1", "Building a Playbook",
                                   <<"Setup templates", "Criteria & invalidations">>, "Ascent"),
                      CourseLesson("A2", "Backtest Basics",
                                   <<"Sample size", "Bias control">>, "Ascent") >>),
       CourseStage("orbit", "Orbit",
                   "Advanced consistency and scaling.",
                   << CourseLesson("O1", "Scaling Risk",
                                   <<"Risk scaling rules", "Drawdown limits">>, "Orbit"),
                      CourseLesson("O2", "Regime Detection",
                                   <<"Macro + micro filters", "Adaptation">>, "Orbit") >>) >>

\* variant: Ignition is authored before Pre-Launch
get_course_map_swapped ==
    [CourseStages EXCEPT ![2] = CourseStages[3], ![3] = CourseStages[2]]

get_course_map == CourseStages

----------------------------------------------------------------------------
(* Database connectivity test: the collaborators *)

NoExc == [type |-> "none", msg |-> <<>>]
Exc(t, m) == [type |-> t, msg |-> m]

\* str(e) of an exception raised with one message
Str(e) == e.msg

\* How the `database` module and its handle behave during one request:
\*   imp    "ok", or "raises" with impExc, for `from database import db`
\*   db     "None" or "handle"
\*   name   "absent", "value" with nameValue, or "raises" with nameExc,
\*          for hasattr(db, 'name') and db.name
\*   list   "returns" with listValue, or "raises" with listExc,
\*          for db.list_collection_names()
\* The fields an outcome does not reach hold the defaults of NoProbe.
NoProbe ==
    [imp |-> "none", impExc |-> NoExc, db |-> "None",
     name |-> "absent", nameValue |-> PyNone, nameExc |-> NoExc,
     list |-> "returns", listValue |-> <<>>, listExc |-> NoExc]

ImportRaises == {[NoProbe EXCEPT !.imp = "raises", !.impExc = e] :
                    e \in {Exc("ModuleNotFoundError", Msg(1)), Exc("ImportError", Msg(MaxMsgLen))}
                          \cup {Exc("RuntimeError", m) : m \in Msgs}}

NoHandle == [NoProbe EXCEPT !.imp = "ok"]

NameOk == {[NoHandle EXCEPT !.db = "handle"],
           [NoHandle EXCEPT !.db = "handle", !.name = "value", !.nameValue = "roqet"]}

NameRaises == {[NoHandle EXCEPT !.db = "handle", !.name = "raises", !.nameExc = e] :
                  e \in {Exc("ImportError", Msg(1)), Exc("RuntimeError", Msg(1)),
                         Exc("RuntimeError", Msg(MaxMsgLen))}}

ListReturns == {[o EXCEPT !.listValue = l] : o \in NameOk, l \in Listings}

ListRaises == {[o EXCEPT !.list = "raises", !.listExc = Exc(t, m)] :
                  o \in NameOk, t \in {"RuntimeError", "ImportError"}, m \in Msgs}

Outcomes == ImportRaises \cup {NoHandle} \cup NameRaises \cup ListReturns \cup ListRaises

----------------------------------------------------------------------------
(* Database connectivity test: the handler *)

ReportKeys == {"backend", "database", "database_url", "database_name",
               "connection_status", "collections"}

\* variant: the dict is a module-level object, so a /test request that
\* follows another starts from the dict its predecessor left
InitialResponseShared ==
    IF handler = "test_database"
    THEN local
    ELSE [backend |-> "Running",
          database |-> <<"Not Available">>,
          database_url |-> PyNone,
          database_name |-> PyNone,
          connection_status |-> "Not Connected",
          collections |-> <<>>]

InitialResponse ==
    [backend |-> "Running",
     database |-> <<"Not Available">>,
     database_url |-> PyNone,
     database_name |-> PyNone,
     connection_status |-> "Not Connected",
     collections |-> <<>>]

\* where a block of the handler ends: the dict, the exception leaving the
\* block (NoExc when it ends normally) and the collaborator calls so far
Frame(r, e, calls) == [response |-> r, raised |-> e, invoked |-> calls]

\* variant: the listing is stored whole
TryListingUnsliced(r, o, calls) ==
    LET calls2 == Append(calls, "db.list_collection_names()")
    IN IF o.list = "returns"
       THEN Frame([r EXCEPT !.collections = o.listValue,
                            !.database = <<"Connected & Working">>],
                  NoExc, calls2)
       ELSE Frame([r EXCEPT !.database = <<"Connected but Error: ">>
                                             \o SliceTo(Str(o.listExc), ErrorChars)],
                  NoExc, calls2)

\* variant: the message is reported whole
TryListingUntruncated(r, o, calls) ==
    LET calls2 == Append(calls, "db.list_collection_names()")
    IN IF o.list = "returns"
       THEN Frame([r EXCEPT !.collections = SliceTo(o.listValue, ListedColls),
                            !.database = <<"Connected & Working">>],
                  NoExc, calls2)
       ELSE Frame([r EXCEPT !.database = <<"Connected but Error: ">> \o Str(o.listExc)],
                  NoExc, calls2)

\* the inner try statement
TryListing(r, o, calls) ==
    LET calls2 == Append(calls, "db.list_collection_names()")
    IN IF o.list = "returns"
       THEN Frame([r EXCEPT !.collections = SliceTo(o.listValue, ListedColls),
                            !.database = <<"Connected & Working">>],
                  NoExc, calls2)
       ELSE IF IsException(o.listExc.type)
       THEN Frame([r EXCEPT !.database = <<"Connected but Error: ">>
                                             \o SliceTo(Str(o.listExc), ErrorChars)],
                  NoExc, calls2)
       ELSE Frame(r, o.listExc, calls2)

\* variant: the name attribute is never read
WithHandleNoName(r, o, calls) ==
    LET r1 == [r EXCEPT !.database = <<"Available">>,
                        !.database_url = "Configured"]
        calls1 == Append(calls, "hasattr(db, 'name')")
    IN IF o.name = "raises"
       THEN Frame(r1, o.nameExc, calls1)
       ELSE TryListing([r1 EXCEPT !.database_name = "Connected",
                                  !.connection_status = "Connected"], o, calls1)

\* the branch `db is not None`
WithHandle(r, o, calls) ==
    LET r1 == [r EXCEPT !.database = <<"Available">>,
                        !.database_url = "Configured"]
        calls1 == Append(calls, "hasattr(db, 'name')")
    IN IF o.name = "raises"
       THEN Frame(r1, o.nameExc, calls1)
       ELSE LET r2 == [r1 EXCEPT !.database_name =
                                     IF o.name = "value" THEN o.nameValue ELSE "Connected",
                                 !.connection_status = "Connected"]
            IN TryListing(r2, o, calls1)

\* variant: the handle is used without the test for None
TryBodyNoNoneCheck(r, o) ==
    LET calls == <<"from database import db">>
    IN IF o.imp = "raises"
       THEN Frame(r, o.impExc, calls)
       ELSE WithHandle(r, o, calls)

\* the body of the outer try statement
TryBody(r, o) ==
    LET calls == <<"from database import db">>
    IN IF o.imp = "raises"
       THEN Frame(r, o.impExc, calls)
       ELSE IF o.db # "None"
       THEN WithHandle(r, o, calls)
       ELSE Frame([r EXCEPT !.database = <<"Available but not initialized">>],
                  NoExc, calls)

\* variant: only ImportError is handled
TryProbeImportErrorOnly(r, o) ==
    LET f == TryBody(r, o)
    IN IF f.raised = NoExc
       THEN f
       ELSE IF IsImportError(f.raised.type)
       THEN Frame([f.response EXCEPT !.database =
                       <<"Database module not found (run enable-database first)">>],
                  NoExc, f.invoked)
       ELSE f

\* variant: `except Exception` comes first and shadows `except ImportError`
TryProbeBroadFirst(r, o) ==
    LET f == TryBody(r, o)
    IN IF f.raised = NoExc
       THEN f
       ELSE IF IsException(f.raised.type)
       THEN Frame([f.response EXCEPT !.database =
                       <<"Error: ">> \o SliceTo(Str(f.raised), ErrorChars)],
                  NoExc, f.invoked)
       ELSE f

\* the outer try statement with its two handlers
TryProbe(r, o) ==
    LET f == TryBody(r, o)
    IN IF f.raised = NoExc
       THEN f
       ELSE IF IsImportError(f.raised.type)
       THEN Frame([f.response EXCEPT !.database =
                       <<"Database module not found (run enable-database first)">>],
                  NoExc, f.invoked)
       ELSE IF IsException(f.raised.type)
       THEN Frame([f.response EXCEPT !.database =
                       <<"Error: ">> \o SliceTo(Str(f.raised), ErrorChars)],
                  NoExc, f.invoked)
       ELSE f

\* variant: each field reads the other variable
ReportEnvSwapped(r, env) ==
    [r EXCEPT !.database_url = IF Truthy(getenv(env, "DATABASE_NAME")) THEN "Set" ELSE "Not Set",
              !.database_name = IF Truthy(getenv(env, "DATABASE_URL")) THEN "Set" ELSE "Not Set"]

\* the two assignments from os.getenv
ReportEnv(r, env) ==
    [r EXCEPT !.database_url = IF Truthy(getenv(env, "DATABASE_URL")) THEN "Set" ELSE "Not Set",
              !.database_name = IF Truthy(getenv(env, "DATABASE_NAME")) THEN "Set" ELSE "Not Set"]

\* The whole handler: what it returns (or the exception it lets through),
\* with the dict as the try statement left it and the calls it made.
test_database(o, env) ==
    LET f == TryProbe(InitialResponse, o)
    IN [result |-> IF f.raised = NoExc
                   THEN ReportEnv(f.response, env)
                   ELSE [exception |-> f.raised],
        local |-> f.response,
        invoked |-> f.invoked]

----------------------------------------------------------------------------
(* State machine: one action per route handler, and the process restart *)

ContentHandlers == {"get_news", "get_tools", "get_course_map"}

NoLocal == [backend |-> PyNone]

\* the outcomes tried where every first result is kept for comparison
FrameOutcomes ==
    {[NoProbe EXCEPT !.imp = "raises", !.impExc = Exc("ModuleNotFoundError", Msg(1))],
     NoHandle,
     [NoHandle EXCEPT !.db = "handle", !.name = "value", !.nameValue = "roqet",
                      !.listValue = Ascending(2)],
     [NoHandle EXCEPT !.db = "handle", !.list = "raises",
                      !.listExc = Exc("RuntimeError", Msg(1))]}

NoAudit ==
    [first |-> [h \in ContentHandlers |-> [called |-> FALSE, value |-> <<>>]],
     firstTest |-> [called |-> FALSE, environ |-> [n \in EnvNames |-> PyNone],
                    probe |-> NoProbe, response |-> NoLocal],
     later |-> FALSE]

\* the observer keeps the first result of each content handler, the first
\* /test report with the environment and the outcome it was made under, and
\* whether a /test request under another environment or outcome followed it
Observe(a, h, resp, env, p) ==
    IF h \in ContentHandlers
    THEN IF a.first[h].called
         THEN a
         ELSE [a EXCEPT !.first[h] = [called |-> TRUE, value |-> resp]]
    ELSE IF h = "test_database" /\ ~a.firstTest.called
    THEN [a EXCEPT !.firstTest = [called |-> TRUE, environ |-> env,
                                  probe |-> p, response |-> resp]]
    ELSE IF h = "test_database" /\ (a.firstTest.environ # env \/ a.firstTest.probe # p)
    THEN [a EXCEPT !.later = TRUE]
    ELSE a

Init ==
    /\ environ \in Environments
    /\ handler = "none"
    /\ response = NoLocal
    /\ probe = NoProbe
    /\ local = NoLocal
    /\ invoked = <<>>
    /\ audit = NoAudit

Serve(h, resp, p, l, calls) ==
    /\ handler' = h
    /\ response' = resp
    /\ probe' = p
    /\ local' = l
    /\ invoked' = calls
    /\ UNCHANGED environ

ReadRoot == Serve("read_root", read_root, NoProbe, NoLocal, <<>>)

Hello == Serve("hello", hello, NoProbe, NoLocal, <<>>)

GetNews == Serve("get_news", get_news, NoProbe, NoLocal, <<>>)

GetTools == Serve("get_tools", get_tools, NoProbe, NoLocal, <<>>)

GetCourseMap == Serve("get_course_map", get_course_map, NoProbe, NoLocal, <<>>)

TestDatabase(o) ==
    LET t == test_database(o, environ)
    IN Serve("test_database", t.result, o, t.local, t.invoked)

\* the process is started again, under an environment of the deployment's
\* choice; what the observer has kept survives it
Restart(env) ==
    /\ environ' = env
    /\ handler' = "none"
    /\ response' = NoLocal
    /\ probe' = NoProbe
    /\ local' = NoLocal
    /\ invoked' = <<>>
    /\ UNCHANGED audit

Next ==
    \/ ReadRoot /\ UNCHANGED audit
    \/ Hello /\ UNCHANGED audit
    \/ GetNews /\ UNCHANGED audit
    \/ GetTools /\ UNCHANGED audit
    \/ GetCourseMap /\ UNCHANGED audit
    \/ \E o \in Outcomes : TestDatabase(o) /\ UNCHANGED audit
    \/ \E env \in Environments : Restart(env)

Spec == Init /\ [][Next]_vars

\* the same handlers, observed
Observed == audit' = Observe(audit, handler', response', environ, probe')

NextFrame ==
    \/ ReadRoot /\ Observed
    \/ Hello /\ Observed
    \/ GetNews /\ Observed
    \/ GetTools /\ Observed
    \/ GetCourseMap /\ Observed
    \/ \E o \in FrameOutcomes : TestDatabase(o) /\ Observed
    \/ \E env \in Environments : Restart(env)

SpecFrame == Init /\ [][NextFrame]_vars

----------------------------------------------------------------------------
(* Properties *)

Served == handler = "test_database"
Returned == Served /\ DOMAIN response = ReportKeys
Min(a, b) == IF a < b THEN a ELSE b
\* s is exactly the first min(n, len(l)) elements of l, in their order
IsPrefixOfAtMost(s, l, n) ==
    /\ Len(s) = Min(n, Len(l))
    /\ \A i \in 1..Len(s) : s[i] = l[i]
Distinct(ids) == \A i, j \in 1..Len(ids) : ids[i] = ids[j] => i = j

\* C1: whatever the import, the name lookup and the listing do (return or
\* raise), test_database returns a report with exactly the six keys, and
\* its backend field is the Running marker.
C1_NeverPropagates ==
    Served => /\ DOMAIN response = ReportKeys
              /\ response.backend = "Running"

\* the import raised an exception that is no ImportError, with a message
\* longer than the report keeps, and a report came back
C1_Witness ==
    /\ Returned
    /\ probe.imp = "raises"
    /\ probe.impExc.type = "RuntimeError"
    /\ Len(probe.impExc.msg) > ErrorChars
    /\ response.database = <<"Error: ">> \o SubSeq(probe.impExc.msg, 1, ErrorChars)

\* C2 as stated: database_url is Set exactly when DATABASE_URL is present
\* in the environment and Not Set exactly when it is absent, whatever its
\* value; likewise database_name for DATABASE_NAME.
C2_PresenceOnly ==
    Returned =>
        /\ (response.database_url = "Set") <=> (environ["DATABASE_URL"] # PyNone)
        /\ (response.database_url = "Not Set") <=> (environ["DATABASE_URL"] = PyNone)
        /\ (response.database_name = "Set") <=> (environ["DATABASE_NAME"] # PyNone)
        /\ (response.database_name = "Not Set") <=> (environ["DATABASE_NAME"] = PyNone)

\* C2 amended: database_url is Set exactly when DATABASE_URL is present
\* with a non-empty value, and Not Set when it is absent or empty; likewise
\* database_name for DATABASE_NAME; for every outcome of the collaborators.
C2_NonEmptyValue ==
    Returned =>
        /\ response.database_url =
               IF environ["DATABASE_URL"] \notin {PyNone, ""} THEN "Set" ELSE "Not Set"
        /\ response.database_name =
               IF environ["DATABASE_NAME"] \notin {PyNone, ""} THEN "Set" ELSE "Not Set"

\* a handle was resolved, DATABASE_URL is present but empty and
\* DATABASE_NAME is present with a value
C2_Witness ==
    /\ Returned
    /\ probe.db = "handle"
    /\ environ["DATABASE_URL"] = ""
    /\ environ["DATABASE_NAME"] \notin {PyNone, ""}
    /\ response.database_url = "Not Set"
    /\ response.database_name = "Set"

\* C3: when the import raises ImportError, the report's database field is
\* the module-not-found text, collections is empty, connection_status is
\* Not Connected, and nothing but the import was invoked.
C3_ModuleNotFound ==
    (Served /\ probe.imp = "raises" /\ IsImportError(probe.impExc.type)) =>
        /\ DOMAIN response = ReportKeys
        /\ response.database = <<"Database module not found (run enable-database first)">>
        /\ response.collections = <<>>
        /\ response.connection_status = "Not Connected"
        /\ invoked = <<"from database import db">>

\* the import raised ModuleNotFoundError and a report came back
C3_Witness ==
    /\ Returned
    /\ probe.imp = "raises"
    /\ probe.impExc.type = "ModuleNotFoundError"
    /\ response.collections = <<>>

\* C4: when a handle is resolved and the listing returns L, collections is
\* the first min(10, len(L)) elements of L in their order, database is
\* Connected & Working and connection_status is Connected.
C4_BoundedListing ==
    (Served /\ probe.db = "handle" /\ probe.name # "raises" /\ probe.list = "returns") =>
        /\ DOMAIN response = ReportKeys
        /\ IsPrefixOfAtMost(response.collections, probe.listValue, ListedColls)
        /\ Len(response.collections) <= ListedColls
        /\ response.database = <<"Connected & Working">>
        /\ response.connection_status = "Connected"

\* the handle listed more collections than are reported, in descending order
C4_Witness ==
    /\ Returned
    /\ probe.db = "handle"
    /\ probe.list = "returns"
    /\ Len(probe.listValue) > ListedColls
    /\ probe.listValue[1] > probe.listValue[2]
    /\ Len(response.collections) = ListedColls

\* C5: when a handle is resolved and the listing raises with message m, the
\* report still comes back: database is the Connected-but-Error text
\* followed by the first min(50, len(m)) characters of m, collections is
\* empty and connection_status is Connected.
C5_ListingError ==
    (Served /\ probe.db = "handle" /\ probe.name # "raises" /\ probe.list = "raises") =>
        /\ DOMAIN response = ReportKeys
        /\ Len(response.database) >= 1
        /\ Head(response.database) = "Connected but Error: "
        /\ IsPrefixOfAtMost(Tail(response.database), probe.listExc.msg, ErrorChars)
        /\ (Len(probe.listExc.msg) <= ErrorChars
               => Tail(response.database) = probe.listExc.msg)
        /\ response.collections = <<>>
        /\ response.connection_status = "Connected"

\* the listing raised with a message longer than the report keeps
C5_Witness ==
    /\ Returned
    /\ probe.db = "handle"
    /\ probe.list = "raises"
    /\ Len(probe.listExc.msg) > ErrorChars
    /\ Len(response.database) = ErrorChars + 1

\* C6: get_course_map returns 5 stages with keys launchpad, prelaunch,
\* ignition, ascent, orbit in that order; every stage has 2 lessons, and
\* the lesson ids of a stage are pairwise distinct.
C6_CourseMap ==
    handler = "get_course_map" =>
        /\ Len(response) = 5
        /\ [i \in 1..Len(response) |-> response[i].key]
               = <<"launchpad", "prelaunch", "ignition", "ascent", "orbit">>
        /\ \A i \in 1..Len(response) :
               /\ Len(response[i].lessons) = 2
               /\ Distinct([j \in 1..Len(response[i].lessons) |-> response[i].lessons[j].id])

\* the course map was served
C6_Witness ==
    /\ handler = "get_course_map"
    /\ Len(response) = 5
    /\ response[5].lessons[2].id = "O2"

\* C7: get_news returns 3 items with pairwise distinct ids, every timeframe
\* is short or long, and both values occur.
C7_News ==
    handler = "get_news" =>
        /\ Len(response) = 3
        /\ Distinct([i \in 1..Len(response) |-> response[i].id])
        /\ {response[i].timeframe : i \in 1..Len(response)} = {"short", "long"}

\* the news was served
C7_Witness ==
    /\ handler = "get_news"
    /\ Len(response) = 3
    /\ response[2].timeframe = "long"

\* C8: whatever was requested before, a content handler returns what its
\* first call returned, and a /test report equals the first /test report
\* whenever the environment and the collaborators' outcome are those of
\* that first call.
C8_NoStateLeftBehind ==
    /\ \A h \in ContentHandlers :
           (handler = h /\ audit.first[h].called) => response = audit.first[h].value
    /\ (Served /\ audit.firstTest.called
          /\ audit.firstTest.environ = environ /\ audit.firstTest.probe = probe)
         => response = audit.firstTest.response

\* every content handler has been called, and /test is served under the
\* environment and outcome of its first call, an import that raises, after
\* a /test request under another environment or outcome
C8_Witness ==
    /\ Served
    /\ \A h \in ContentHandlers : audit.first[h].called
    /\ audit.firstTest.called
    /\ audit.later
    /\ audit.firstTest.environ = environ
    /\ audit.firstTest.probe = probe
    /\ probe.imp = "raises"

\* C9: when the import succeeds and the handle is None, database is the
\* Available-but-not-initialized text, nothing but the import was invoked,
\* collections is empty and connection_status is Not Connected.
C9_NotInitialized ==
    (Served /\ probe.imp = "ok" /\ probe.db = "None") =>
        /\ DOMAIN response = ReportKeys
        /\ response.database = <<"Available but not initialized">>
        /\ invoked = <<"from database import db">>
        /\ response.collections = <<>>
        /\ response.connection_status = "Not Connected"

\* the import gave None and a report came back
C9_Witness ==
    /\ Returned
    /\ probe.imp = "ok"
    /\ probe.db = "None"
    /\ response.database = <<"Available but not initialized">>

\* C10 as stated: when a handle is resolved, the returned report has
\* database_url Configured and database_name the handle's name, or the
\* Connected marker when the handle has no name attribute.
C10_ReturnedCarriesHandle ==
    (Returned /\ probe.db = "handle" /\ probe.name # "raises") =>
        /\ response.database_url = "Configured"
        /\ response.database_name =
               IF probe.name = "value" THEN probe.nameValue ELSE "Connected"

\* C10 amended: when a handle is resolved, the dict holds database_url
\* Configured when the try statement ends, and database_name the handle's
\* name (the Connected marker when it has no name attribute, still None
\* when the lookup raised); the returned report holds neither, both fields
\* being the Set / Not Set markers of the environment.
C10_RecordedThenOverwritten ==
    (Served /\ probe.db = "handle") =>
        /\ local.database_url = "Configured"
        /\ probe.name = "value" => local.database_name = probe.nameValue
        /\ probe.name = "absent" => local.database_name = "Connected"
        /\ probe.name = "raises" => local.database_name = PyNone
        /\ DOMAIN response = ReportKeys
        /\ response.database_url \in {"Set", "Not Set"}
        /\ response.database_name \in {"Set", "Not Set"}

\* a handle with a name attribute was resolved and listed
C10_Witness ==
    /\ Returned
    /\ probe.db = "handle"
    /\ probe.name = "value"
    /\ local.database_name = probe.nameValue
    /\ response.database_name = "Not Set"

====
